---- MODULE Spec2Model ----
(***************************************************************************)
(* English-to-Futhorc transliteration (rust/src/lib.rs, rust/src/futhorc.rs)*)
(*                                                                         *)
(* A Rust `char` is modelled as a TLA+ string.  ASCII characters are the   *)
(* one-character strings themselves ("a", "'", " ", "\n").  Characters     *)
(* outside ASCII carry an ASCII name:                                      *)
(*   IPA:   schwa U+0259, turned_v U+028C, rev_eps U+025C, small_i U+026A, *)
(*          eps U+025B, ash U+00E6, script_a U+0251, open_o U+0254,        *)
(*          upsilon U+028A, theta U+03B8, eth U+00F0, esh U+0283,          *)
(*          ezh U+0292, eng U+014B, turned_r U+0279, stress1 U+02C8,       *)
(*          stress2 U+02CC, mod_x U+02E3, dezh U+02A4, tesh U+02A7,        *)
(*          schwa_hook U+025A                                              *)
(*   runes: FEOH U+16A0, UR U+16A2, YR U+16A3, THORN U+16A6, OS U+16A9,    *)
(*          AC U+16AA, AESC U+16AB, RAD U+16B1, CEN U+16B3, GYFU U+16B7,   *)
(*          WYNN U+16B9, HAEGL U+16BB, NYD U+16BE, IS U+16C1, GER U+16C4,  *)
(*          PEORTH U+16C8, EOLHX U+16C9, SIGEL U+16CB, TIR U+16CF,         *)
(*          BEORC U+16D2, EH U+16D6, MAN U+16D7, LAGU U+16DA, ING U+16DD,  *)
(*          DAEG U+16DE, ETHEL U+16DF, EAR U+16E0, IOR U+16E1,             *)
(*          CWEORTH U+16E2, STAN U+16E5, RUNIC_PUNCT U+16EB                *)
(* A Rust String is a sequence of such characters.  Vec indices stay       *)
(* zero-based as in the source; Seq accesses add one.                      *)
(***************************************************************************)
EXTENDS Integers, Sequences, FiniteSets, TLC

VARIABLES
    english_to_ipa,  \* EnglishToRunes.english_to_ipa : word -> transcription
    todo,            \* dictionary entries the first loop of detect_ambiguities has not visited
    full_dict,       \* detect_ambiguities: CollapsedKey -> BuildState
    keys_todo,       \* keys of full_dict the second loop has not visited
    amb_map,         \* the AmbiguityMap under construction / EnglishToRunes.ambiguity_map
    shifts,          \* shift counts `1u32 << i` has been applied with
    input,           \* the argument of translate as the caller passed it
    words,           \* translate: `words` after make_ascii_lowercase
    whitespaces,     \* translate: Vec<String>
    ipa_words,       \* translate: Vec<(String, bool)>
    i,               \* translate: index of the next token of the token loop
    j,               \* translate: hyphens inserted so far
    k,               \* translate: index of the next unit of the assembly loop
    translated,      \* translate: the output string
    pc               \* position of the program

vars == <<english_to_ipa, todo, full_dict, keys_todo, amb_map, shifts, input,
          words, whitespaces, ipa_words, i, j, k, translated, pc>>

-----------------------------------------------------------------------------
(* Characters *)

LowerLetters == <<"a","b","c","d","e","f","g","h","i","j","k","l","m",
                  "n","o","p","q","r","s","t","u","v","w","x","y","z">>
UpperLetters == <<"A","B","C","D","E","F","G","H","I","J","K","L","M",
                  "N","O","P","Q","R","S","T","U","V","W","X","Y","Z">>

\* char::to_ascii_lowercase as a table over the ASCII upper-case letters
LowerOf == [c \in {UpperLetters[n] : n \in 1..26} |->
               LowerLetters[CHOOSE n \in 1..26 : UpperLetters[n] = c]]

\* char::to_ascii_lowercase, applied to every char by String::make_ascii_lowercase
ToAsciiLowercase(c) == IF c \in DOMAIN LowerOf THEN LowerOf[c] ELSE c

MakeAsciiLowercase(s) == [n \in 1..Len(s) |-> ToAsciiLowercase(s[n])]

\* char::is_whitespace on the characters of the model
IsWhitespace(c) == c \in {" ", "\n", "\t"}

\* Unicode scalar value of a character (the operand of `ch as u16`)
OtherCodes ==
    [ c \in {"\t", "\n", " ", "!", "'", ",", "-", ".", ":", ";", "?",
             "schwa", "turned_v", "rev_eps", "small_i", "eps", "ash", "script_a",
             "open_o", "upsilon", "theta", "eth", "esh", "ezh", "eng", "turned_r",
             "stress1", "stress2", "mod_x", "dezh", "tesh", "schwa_hook", "UR"} |->
        CASE c = "\t" -> 9        [] c = "\n" -> 10       [] c = " " -> 32
          [] c = "!" -> 33        [] c = "'" -> 39        [] c = "," -> 44
          [] c = "-" -> 45        [] c = "." -> 46        [] c = ":" -> 58
          [] c = ";" -> 59        [] c = "?" -> 63
          [] c = "schwa" -> 601   [] c = "turned_v" -> 652 [] c = "rev_eps" -> 604
          [] c = "small_i" -> 618 [] c = "eps" -> 603     [] c = "ash" -> 230
          [] c = "script_a" -> 593 [] c = "open_o" -> 596 [] c = "upsilon" -> 650
          [] c = "theta" -> 952   [] c = "eth" -> 240     [] c = "esh" -> 643
          [] c = "ezh" -> 658     [] c = "eng" -> 331     [] c = "turned_r" -> 633
          [] c = "stress1" -> 712 [] c = "stress2" -> 716 [] c = "mod_x" -> 739
          [] c = "dezh" -> 676    [] c = "tesh" -> 679    [] c = "schwa_hook" -> 602
          [] c = "UR" -> 5794 ]

LetterCodes ==
    [c \in {LowerLetters[n] : n \in 1..26} \cup {UpperLetters[n] : n \in 1..26} |->
        IF \E n \in 1..26 : LowerLetters[n] = c
        THEN 96 + (CHOOSE n \in 1..26 : LowerLetters[n] = c)
        ELSE 64 + (CHOOSE n \in 1..26 : UpperLetters[n] = c)]

CodePoint(c) == IF c \in DOMAIN LetterCodes THEN LetterCodes[c] ELSE OtherCodes[c]

-----------------------------------------------------------------------------
(* Sequence helpers standing for the std String / Vec methods the source uses *)

Last(s) == s[Len(s)]
Front(s) == SubSeq(s, 1, Len(s) - 1)

\* str::ends_with(&str)
EndsWith(s, suffix) ==
    /\ Len(suffix) <= Len(s)
    /\ SubSeq(s, Len(s) - Len(suffix) + 1, Len(s)) = suffix

\* str::contains(char)
Contains(s, c) == \E n \in 1..Len(s) : s[n] = c

RECURSIVE Concat(_)
Concat(ss) == IF ss = <<>> THEN <<>> ELSE Head(ss) \o Concat(Tail(ss))

Min(S) == CHOOSE x \in S : \A y \in S : x <= y

-----------------------------------------------------------------------------
(* rust/src/lib.rs *)

\* The width of the u32 masks of BuildState; `if i >= 32 { break; }`
MaskBits == 32

\* remove_stress_markers
RECURSIVE remove_stress_markers(_)
remove_stress_markers(string) ==
    IF string = <<>> THEN <<>>
    ELSE IF Head(string) \in {"stress1", "stress2"}
         THEN remove_stress_markers(Tail(string))
         ELSE <<Head(string)>> \o remove_stress_markers(Tail(string))

\* mutant: the upper-case S is not in the arm of s and z
collapse_key_without_S(seq) ==
    [n \in 1..Len(seq) |->
        IF seq[n] \in {"f", "v"} THEN 0
        ELSE IF seq[n] \in {"s", "z"} THEN 1
        ELSE CodePoint(seq[n]) % 65536]

\* collapse_key: one u16 per char
collapse_key(seq) ==
    [n \in 1..Len(seq) |->
        IF seq[n] \in {"f", "v"} THEN 0
        ELSE IF seq[n] \in {"s", "S", "z"} THEN 1
        ELSE CodePoint(seq[n]) % 65536]

\* BuildState::default().  A u32 mask is the set of its set bit positions:
\* `|` is union, `&` is intersection.
DefaultBuildState == [seen_f |-> {}, seen_v |-> {}, seen_s |-> {}, seen_z |-> {}]

\* `1u32 << n`: a shift count that is not below the width is masked to the
\* width by the release build (and aborts the debug build).
Shl1(n) == {n % MaskBits}

\* the loop body of ingest_word at index n (zero-based), after the bound check
IngestChar(st, ch, n) ==
    CASE ch = "f" -> [st EXCEPT !.seen_f = @ \cup Shl1(n)]
      [] ch = "v" -> [st EXCEPT !.seen_v = @ \cup Shl1(n)]
      [] ch \in {"s", "S"} -> [st EXCEPT !.seen_s = @ \cup Shl1(n)]
      [] ch = "z" -> [st EXCEPT !.seen_z = @ \cup Shl1(n)]
      [] OTHER -> st

\* mutant: the bound check lets index 32 through
IngestStop_after_32(word, n) == n >= Len(word) \/ n > MaskBits

\* where the enumeration of ingest_word stops: `if i >= 32 { break; }`
IngestStop(word, n) == n >= Len(word) \/ n >= MaskBits

RECURSIVE IngestFrom(_, _, _)
IngestFrom(word, n, st) ==
    IF IngestStop(word, n) THEN st
    ELSE IngestFrom(word, n + 1, IngestChar(st, word[n + 1], n))

\* ingest_word
ingest_word(word) == IngestFrom(word, 0, DefaultBuildState)

\* the shift counts ingest_word applies `1u32 << i` with
RECURSIVE ShiftCounts(_, _)
ShiftCounts(word, n) ==
    IF IngestStop(word, n) THEN {} ELSE {n} \cup ShiftCounts(word, n + 1)

\* mutant: seen_f is assigned, not or-ed
MergeState_assign_f(entry, st) ==
    [seen_f |-> st.seen_f,
     seen_v |-> entry.seen_v \cup st.seen_v,
     seen_s |-> entry.seen_s \cup st.seen_s,
     seen_z |-> entry.seen_z \cup st.seen_z]

\* detect_ambiguities, first loop: `entry.seen_x |= st.seen_x`
MergeState(entry, st) ==
    [seen_f |-> entry.seen_f \cup st.seen_f,
     seen_v |-> entry.seen_v \cup st.seen_v,
     seen_s |-> entry.seen_s \cup st.seen_s,
     seen_z |-> entry.seen_z \cup st.seen_z]

\* mutant: the s/z conflicts are left out of the mask
AmbMask_only_fv(st) == st.seen_f \cap st.seen_v

\* detect_ambiguities, second loop: (seen_f & seen_v) | (seen_s & seen_z)
AmbMask(st) == (st.seen_f \cap st.seen_v) \cup (st.seen_s \cap st.seen_z)

\* the while loop pushing trailing_zeros and clearing the lowest set bit
RECURSIVE LowestBitsFirst(_)
LowestBitsFirst(amb) ==
    IF amb = {} THEN <<>>
    ELSE <<Min(amb)>> \o LowestBitsFirst(amb \ {Min(amb)})

\* disambiguate, step 1: strip the stress markers, lower F, V, S, Z
Normalize(ipa) ==
    LET s == remove_stress_markers(ipa) IN
    [n \in 1..Len(s) |->
        CASE s[n] = "F" -> "f" [] s[n] = "V" -> "v"
          [] s[n] = "S" -> "s" [] s[n] = "Z" -> "z" [] OTHER -> s[n]]

\* disambiguate, step 2: every listed index below the length holding f or s is raised
RECURSIVE MarkAmbiguous(_, _)
MarkAmbiguous(chars, ambs) ==
    IF ambs = <<>> THEN chars
    ELSE LET idx == Head(ambs)
             next == IF idx < Len(chars)
                     THEN CASE chars[idx + 1] = "f" -> [chars EXCEPT ![idx + 1] = "F"]
                            [] chars[idx + 1] = "s" -> [chars EXCEPT ![idx + 1] = "S"]
                            [] OTHER -> chars
                     ELSE chars
         IN MarkAmbiguous(next, Tail(ambs))

\* mutant: step 4 is left out, the raised F and S stay upper case
VoiceRest_no_step4(chars) ==
    [n \in 1..Len(chars) |->
        CASE chars[n] = "f" -> "v" [] chars[n] = "s" -> "z" [] OTHER -> chars[n]]

\* disambiguate, steps 3 and 4
VoiceRest(chars) ==
    LET voiced == [n \in 1..Len(chars) |->
                      CASE chars[n] = "f" -> "v" [] chars[n] = "s" -> "z"
                        [] OTHER -> chars[n]]
    IN [n \in 1..Len(voiced) |->
           CASE voiced[n] = "F" -> "f" [] voiced[n] = "S" -> "s"
             [] OTHER -> voiced[n]]

\* mutant: the table is never consulted, every f and s is voiced
disambiguate_all_voiced(ipa, ambiguities) == VoiceRest(Normalize(ipa))

\* disambiguate
disambiguate(ipa, ambiguities) ==
    LET ipa_chars == Normalize(ipa)
        collapsed == collapse_key(ipa_chars)
        marked == IF collapsed \in DOMAIN ambiguities
                  THEN MarkAmbiguous(ipa_chars, ambiguities[collapsed])
                  ELSE ipa_chars
    IN VoiceRest(marked)

\* translate_to_runic_2: the rune a matching pair folds into, <<>> when no arm matches
FoldPair(a, b) ==
    CASE a = "e" /\ b \in {"small_i", "j"} -> <<"EAR">>
      [] a = "a" /\ b \in {"small_i", "j"} -> <<"IOR">>
      [] a = "a" /\ b \in {"upsilon", "w"} -> <<"AC", "WYNN">>
      [] a = "script_a" /\ b = "turned_r" -> <<"AC", "RAD">>
      [] a = "eps" /\ b = "turned_r" -> <<"EAR", "RAD">>
      [] a \in {"small_i", "i"} /\ b = "turned_r" -> <<"IS", "IS", "RAD">>
      [] a = "o" /\ b \in {"upsilon", "w"} -> <<"OS">>
      [] a = "open_o" /\ b \in {"small_i", "j"} -> <<"OS", "IS">>
      [] a = "open_o" /\ b = "turned_r" -> <<"OS", "RAD">>
      [] a = "t" /\ b = "esh" -> <<"CEN", "HAEGL">>
      [] a = "d" /\ b = "ezh" -> <<"GYFU", "HAEGL">>
      [] a = "eng" /\ b = "g" -> <<"ING">>
      [] a = "s" /\ b = "S" -> <<"SIGEL", "SIGEL", "SIGEL">>
      [] OTHER -> <<>>

\* translate_to_runic_2: the loop over vec.windows(2); window n is (vec[n], vec[n+1])
RECURSIVE FoldWindows(_, _, _, _)
FoldWindows(vec, n, skip, out) ==
    IF n + 1 > Len(vec) THEN [skip |-> skip, out |-> out]
    ELSE IF skip THEN FoldWindows(vec, n + 1, FALSE, out)
    ELSE LET folded == FoldPair(vec[n], vec[n + 1]) IN
         IF folded # <<>>
         THEN FoldWindows(vec, n + 1, TRUE, out \o folded)
         ELSE FoldWindows(vec, n + 1, FALSE, Append(out, vec[n]))

\* mutant: the last symbol is pushed whether or not the last window was folded
translate_to_runic_2_always_last(string) ==
    LET r == FoldWindows(string, 1, FALSE, <<>>) IN
    IF string = <<>> THEN [ok |-> FALSE, out |-> r.out]
    ELSE [ok |-> TRUE, out |-> Append(r.out, Last(string))]

\* translate_to_runic_2; ok is FALSE when `vec.last().unwrap()` meets None
translate_to_runic_2(string) ==
    LET r == FoldWindows(string, 1, FALSE, <<>>) IN
    IF r.skip THEN [ok |-> TRUE, out |-> r.out]
    ELSE IF string = <<>> THEN [ok |-> FALSE, out |-> r.out]
    ELSE [ok |-> TRUE, out |-> Append(r.out, Last(string))]

\* translate_to_runic: the match on one char
RunesOf(c) ==
    CASE c = "X" -> <<" ">>
      [] c = " " -> <<"RUNIC_PUNCT">>
      [] c = "a" -> <<"AC">>
      [] c \in {"script_a", "open_o"} -> <<"ETHEL">>
      [] c = "ash" -> <<"AESC">>
      [] c = "eps" -> <<"EH">>
      [] c \in {"small_i", "I"} -> <<"IS">>
      [] c = "i" -> <<"IS", "IS">>
      [] c \in {"upsilon", "u"} -> <<"YR">>
      [] c \in {"schwa", "turned_v", "rev_eps"} -> <<"UR">>
      [] c \in {"p", "P"} -> <<"PEORTH">>
      [] c = "b" -> <<"BEORC">>
      [] c \in {"t", "T"} -> <<"TIR">>
      [] c \in {"d", "D"} -> <<"DAEG">>
      [] c \in {"k", "K"} -> <<"CEN">>
      [] c = "g" -> <<"GYFU">>
      [] c \in {"f", "F"} -> <<"FEOH", "FEOH">>
      [] c = "v" -> <<"FEOH">>
      [] c \in {"theta", "eth"} -> <<"THORN">>
      [] c = "s" -> <<"SIGEL", "SIGEL">>
      [] c = "z" -> <<"SIGEL">>
      [] c \in {"esh", "ezh"} -> <<"SIGEL", "HAEGL">>
      [] c = "h" -> <<"HAEGL">>
      [] c \in {"m", "M"} -> <<"MAN">>
      [] c \in {"n", "N"} -> <<"NYD">>
      [] c = "eng" -> <<"ING">>
      [] c = "j" -> <<"GER">>
      [] c = "w" -> <<"WYNN">>
      [] c \in {"turned_r", "R"} -> <<"RAD">>
      [] c \in {"l", "L"} -> <<"LAGU">>
      [] c = "mod_x" -> <<"EOLHX">>
      [] c = "dezh" -> <<"GYFU", "HAEGL">>
      [] c = "tesh" -> <<"CEN", "HAEGL">>
      [] c = "schwa_hook" -> <<"UR", "RAD">>
      [] OTHER -> <<c>>

\* String::replace of a two-char pattern by one char: leftmost matches, not overlapping
RECURSIVE ReplacePair(_, _, _, _)
ReplacePair(s, a, b, r) ==
    IF Len(s) < 2 THEN s
    ELSE IF s[1] = a /\ s[2] = b
         THEN <<r>> \o ReplacePair(SubSeq(s, 3, Len(s)), a, b, r)
         ELSE <<s[1]>> \o ReplacePair(Tail(s), a, b, r)

\* translate_to_runic
translate_to_runic(string) ==
    LET output == Concat([n \in 1..Len(string) |-> RunesOf(string[n])])
    IN ReplacePair(ReplacePair(output, "SIGEL", "TIR", "STAN"), "CEN", "WYNN", "CWEORTH")

-----------------------------------------------------------------------------
(* rust/src/futhorc.rs *)

\* parse_whitespace: the loop over words.chars(), from char n (one-based)
RECURSIVE ParseFrom(_, _, _, _, _)
ParseFrom(text, n, space, spaces, on_space) ==
    IF n > Len(text)
    THEN IF on_space THEN Append(spaces, space) ELSE Append(spaces, <<>>)
    ELSE LET ch == text[n] IN
         IF on_space
         THEN IF IsWhitespace(ch)
              THEN ParseFrom(text, n + 1, Append(space, ch), spaces, TRUE)
              ELSE ParseFrom(text, n + 1, <<>>, Append(spaces, space), FALSE)
         ELSE IF IsWhitespace(ch)
              THEN ParseFrom(text, n + 1, Append(space, ch), spaces, TRUE)
              ELSE ParseFrom(text, n + 1, space, spaces, FALSE)

\* mutant: the run after the last token is not pushed
parse_whitespace_no_tail(text) == Front(ParseFrom(text, 1, <<>>, <<>>, TRUE))

\* parse_whitespace
parse_whitespace(text) == ParseFrom(text, 1, <<>>, <<>>, TRUE)

\* str::split_whitespace: the maximal runs of non-whitespace chars
RECURSIVE SplitFrom(_, _, _, _)
SplitFrom(text, n, cur, out) ==
    IF n > Len(text) THEN (IF cur = <<>> THEN out ELSE Append(out, cur))
    ELSE IF IsWhitespace(text[n])
         THEN SplitFrom(text, n + 1, <<>>, IF cur = <<>> THEN out ELSE Append(out, cur))
         ELSE SplitFrom(text, n + 1, Append(cur, text[n]), out)

split_whitespace(text) == SplitFrom(text, 1, <<>>, <<>>)

\* str::split(char): one more piece than there are separators, empty pieces kept
RECURSIVE SplitOn(_, _, _, _, _)
SplitOn(s, sep, n, cur, out) ==
    IF n > Len(s) THEN Append(out, cur)
    ELSE IF s[n] = sep THEN SplitOn(s, sep, n + 1, <<>>, Append(out, cur))
         ELSE SplitOn(s, sep, n + 1, Append(cur, s[n]), out)

split(s, sep) == SplitOn(s, sep, 1, <<>>, <<>>)

\* translate: the trailing marks that are stripped and remembered in `ch`
Punctuation == {",", ":", ";", ".", "!", "?"}

\* mark_letter_x: the while loop, the index of the first k+s pair at or after idx
\* (zero-based), -1 when `found` stays None
RECURSIVE FindKS(_, _)
FindKS(ipa_chars, idx) ==
    IF idx + 1 >= Len(ipa_chars) THEN -1
    ELSE IF ipa_chars[idx + 1] = "k" /\ ipa_chars[idx + 2] = "s" THEN idx
         ELSE FindKS(ipa_chars, idx + 1)

\* mark_letter_x: the loop over word.chars(), from char n (one-based)
RECURSIVE MarkFrom(_, _, _, _)
MarkFrom(word, n, ipa_chars, search_start) ==
    IF n > Len(word) THEN ipa_chars
    ELSE IF word[n] \in {"x", "X"}
         THEN LET pos == FindKS(ipa_chars, search_start) IN
              IF pos >= 0
              THEN MarkFrom(word, n + 1,
                            SubSeq(ipa_chars, 1, pos) \o <<"mod_x">>
                                \o SubSeq(ipa_chars, pos + 3, Len(ipa_chars)),
                            pos + 1)
              ELSE MarkFrom(word, n + 1, ipa_chars, search_start)
         ELSE MarkFrom(word, n + 1, ipa_chars, search_start)

\* mutant: only the first x of the word collapses a pair
mark_letter_x_first_x_only(word, ipa_input) ==
    IF ~(\E n \in 1..Len(word) : word[n] \in {"x", "X"}) THEN ipa_input
    ELSE LET pos == FindKS(ipa_input, 0) IN
         IF pos >= 0
         THEN SubSeq(ipa_input, 1, pos) \o <<"mod_x">>
                  \o SubSeq(ipa_input, pos + 3, Len(ipa_input))
         ELSE ipa_input

\* mark_letter_x
mark_letter_x(word, ipa_input) ==
    IF ~(\E n \in 1..Len(word) : word[n] \in {"x", "X"}) THEN ipa_input
    ELSE MarkFrom(word, 1, ipa_input, 0)

\* handle_ipa_word: the schwa-class vowels
SchwaClass == {"schwa", "turned_v", "rev_eps"}

\* handle_ipa_word: a final schwa-class vowel becomes `a`
FinalSchwa(ipa_word) ==
    IF ipa_word # <<>> /\ Last(ipa_word) \in SchwaClass
    THEN Append(Front(ipa_word), "a")
    ELSE ipa_word

\* handle_ipa_word: a final `i` becomes `I`
FinalI(ipa_word) ==
    IF ipa_word # <<>> /\ Last(ipa_word) = "i"
    THEN Append(Front(ipa_word), "I")
    ELSE ipa_word

\* mutant: the vowel is dropped but a last `i` is not promoted
ElideAndPromote_no_promotion(chars) ==
    IF chars # <<>> /\ Last(chars) \in SchwaClass \cup {"a"} THEN Front(chars) ELSE chars

\* handle_ipa_word, the 'll and 've arms after the pop: one schwa-class vowel
\* or `a` is dropped, then a last `i` is promoted
ElideAndPromote(chars) ==
    LET elided == IF chars # <<>> /\ Last(chars) \in SchwaClass \cup {"a"}
                  THEN Front(chars) ELSE chars
    IN IF elided # <<>> /\ Last(elided) = "i"
       THEN Append(Front(elided), "I")
       ELSE elided

\* handle_ipa_word, the 'll arm
SuffixLl(ipa_word) ==
    IF ipa_word # <<>> /\ Last(ipa_word) = "l"
    THEN ElideAndPromote(Front(ipa_word)) \o <<"'", "l">>
    ELSE ipa_word \o <<"'", "l">>

\* handle_ipa_word, the 've arm
SuffixVe(ipa_word) ==
    IF ipa_word # <<>>
    THEN ElideAndPromote(Front(ipa_word)) \o <<"'", Last(ipa_word)>>
    ELSE ipa_word \o <<"'", "v">>

\* handle_ipa_word: the chain of arms keyed on the surface word's suffix;
\* ok is FALSE when an `unwrap()` of next_back() meets None
SuffixEdit(word, ipa_word) ==
    IF EndsWith(word, <<"'", "t">>)
    THEN IF ipa_word = <<>> THEN [ok |-> FALSE, val |-> ipa_word]
         ELSE [ok |-> TRUE, val |-> Front(ipa_word) \o <<"'", Last(ipa_word)>>]
    ELSE IF EndsWith(word, <<"'", "d">>)
    THEN IF ipa_word = <<>> THEN [ok |-> FALSE, val |-> ipa_word]
         ELSE LET c == Last(ipa_word)
                  chars == Front(ipa_word)
              IN IF chars # <<>> /\ Last(chars) \in {"turned_v", "small_i"}
                 THEN [ok |-> TRUE, val |-> Front(chars) \o <<"'", "d">>]
                 ELSE [ok |-> TRUE, val |-> chars \o <<"'", c>>]
    ELSE IF EndsWith(word, <<"'", "s">>)
    THEN IF ipa_word = <<>> THEN [ok |-> FALSE, val |-> ipa_word]
         ELSE LET c == Last(ipa_word)
                  chars == Front(ipa_word)
              IN IF chars # <<>> /\ Last(chars) = "i"
                 THEN [ok |-> TRUE, val |-> Front(chars) \o <<"I", "'", c>>]
                 ELSE [ok |-> TRUE, val |-> chars \o <<"'", c>>]
    ELSE IF EndsWith(word, <<"'", "l", "l">>)
    THEN [ok |-> TRUE, val |-> SuffixLl(ipa_word)]
    ELSE IF EndsWith(word, <<"'">>)
    THEN [ok |-> TRUE, val |-> Append(ipa_word, "'")]
    ELSE IF EndsWith(word, <<"'", "r", "e">>)
    THEN IF ipa_word = <<>> THEN [ok |-> FALSE, val |-> ipa_word]
         ELSE [ok |-> TRUE, val |-> Front(ipa_word) \o <<"'", "turned_r">>]
    ELSE IF EndsWith(word, <<"'", "v", "e">>)
    THEN [ok |-> TRUE, val |-> SuffixVe(ipa_word)]
    ELSE [ok |-> TRUE, val |-> ipa_word]

\* handle_ipa_word: the unit pushed onto ipa_words (ok FALSE: the call panicked)
handle_ipa_word(units, ipa_word, word) ==
    IF Len(word) = 1 /\ word[1] \notin {"a", "i"}
    THEN [ok |-> TRUE,
          units |-> Append(units, [word |-> word, translated_to_ipa |-> FALSE])]
    ELSE LET edited == SuffixEdit(word, FinalI(FinalSchwa(remove_stress_markers(ipa_word))))
         IN IF ~edited.ok THEN [ok |-> FALSE, units |-> units]
            ELSE [ok |-> TRUE,
                  units |-> Append(units, [word |-> mark_letter_x(word, edited.val),
                                           translated_to_ipa |-> TRUE])]

\* mutant: every space of the run becomes the marker X
MarkRun_every_space(whitespace) ==
    [n \in 1..Len(whitespace) |-> IF whitespace[n] = " " THEN "X" ELSE whitespace[n]]

\* handle_punctuation: the first space of the run becomes the marker X
MarkRun(whitespace) ==
    IF whitespace # <<>> /\ Head(whitespace) = " "
    THEN <<"X">> \o Tail(whitespace)
    ELSE whitespace

\* mutant: the stripped mark is not pushed back onto the last unit
handle_punctuation_drops_mark(ch, units, spaces, index) ==
    IF ch = " " THEN [ok |-> TRUE, units |-> units, spaces |-> spaces]
    ELSE IF units = <<>> \/ index >= Len(spaces)
    THEN [ok |-> FALSE, units |-> units, spaces |-> spaces]
    ELSE [ok |-> TRUE, units |-> units,
          spaces |-> [spaces EXCEPT ![index + 1] = MarkRun(@)]]

\* handle_punctuation; ok is FALSE when last_mut().unwrap() meets None or
\* `whitespaces[index]` is out of range (index is zero-based)
handle_punctuation(ch, units, spaces, index) ==
    IF ch = " " THEN [ok |-> TRUE, units |-> units, spaces |-> spaces]
    ELSE IF units = <<>> \/ index >= Len(spaces)
    THEN [ok |-> FALSE, units |-> units, spaces |-> spaces]
    ELSE [ok |-> TRUE,
          units |-> [units EXCEPT ![Len(units)].word = Append(@, ch)],
          spaces |-> [spaces EXCEPT ![index + 1] = MarkRun(@)]]

\* translate: the mark stripped from the token, ' ' when there is none
StrippedMark(token) ==
    IF token # <<>> /\ Last(token) \in Punctuation THEN Last(token) ELSE " "

\* translate: the token without its stripped mark
StrippedWord(token) ==
    IF token # <<>> /\ Last(token) \in Punctuation THEN Front(token) ELSE token

\* mutant: the element is inserted one place later
InsertAt_one_later(vec, index, element) ==
    SubSeq(vec, 1, index + 1) \o <<element>> \o SubSeq(vec, index + 2, Len(vec))

\* Vec::insert(index, element), index zero-based (the caller checks index <= len)
InsertAt(vec, index, element) ==
    SubSeq(vec, 1, index) \o <<element>> \o SubSeq(vec, index + 1, Len(vec))

\* translate: the loop over word.split('-'), from piece n (one-based);
\* st = [ok, units, spaces, j, skip]
RECURSIVE SplitLoop(_, _, _, _, _, _)
SplitLoop(dict, word, pieces, n, idx, st) ==
    IF n > Len(pieces) \/ ~st.ok THEN st
    ELSE LET split_word == pieces[n]
             pushed == IF split_word \in DOMAIN dict
                       THEN handle_ipa_word(st.units, dict[split_word], word)
                       ELSE [ok |-> TRUE,
                             units |-> Append(st.units,
                                 [word |-> split_word, translated_to_ipa |-> FALSE])]
             at == idx + st.j + 1
         IN IF ~pushed.ok THEN [st EXCEPT !.ok = FALSE]
            ELSE IF st.skip
            THEN SplitLoop(dict, word, pieces, n + 1, idx,
                           [st EXCEPT !.units = pushed.units, !.skip = FALSE])
            ELSE IF at > Len(st.spaces) THEN [st EXCEPT !.ok = FALSE]
            ELSE SplitLoop(dict, word, pieces, n + 1, idx,
                           [st EXCEPT !.units = pushed.units,
                                      !.spaces = InsertAt(st.spaces, at, <<"-">>),
                                      !.j = st.j + 1])

\* translate: the body of the token loop for token number idx (zero-based);
\* the result is [ok, units, spaces, j]
TokenBody(dict, token, idx, units, spaces, hyphens) ==
    LET ch == StrippedMark(token)
        word == StrippedWord(token)
    IN IF word \in DOMAIN dict
       THEN LET h == handle_ipa_word(units, dict[word], word) IN
            IF ~h.ok THEN [ok |-> FALSE, units |-> units, spaces |-> spaces, j |-> hyphens]
            ELSE LET p == handle_punctuation(ch, h.units, spaces, idx + hyphens + 1)
                 IN [ok |-> p.ok, units |-> p.units, spaces |-> p.spaces, j |-> hyphens]
       ELSE IF Contains(word, "-")
       THEN LET l == SplitLoop(dict, word, split(word, "-"), 1, idx,
                               [ok |-> TRUE, units |-> units, spaces |-> spaces,
                                j |-> hyphens, skip |-> TRUE])
            IN IF ~l.ok THEN [ok |-> FALSE, units |-> l.units, spaces |-> l.spaces, j |-> l.j]
               ELSE LET p == handle_punctuation(ch, l.units, l.spaces, idx + l.j + 1)
                    IN [ok |-> p.ok, units |-> p.units, spaces |-> p.spaces, j |-> l.j]
       ELSE LET p == handle_punctuation(ch,
                         Append(units, [word |-> word, translated_to_ipa |-> FALSE]),
                         spaces, idx + hyphens + 1)
            IN [ok |-> p.ok, units |-> p.units, spaces |-> p.spaces, j |-> hyphens]

\* translate: the text one unit contributes to the output;
\* ok is FALSE when translate_to_runic_2 panics
UnitText(unit, ambiguities) ==
    IF unit.translated_to_ipa
    THEN LET folded == translate_to_runic_2(disambiguate(unit.word, ambiguities))
         IN [ok |-> folded.ok, out |-> translate_to_runic(folded.out)]
    ELSE [ok |-> TRUE, out |-> unit.word]

-----------------------------------------------------------------------------
(* The program as a state machine *)

\* HashMap with no entry
EmptyMap == [key \in {} |-> {}]

\* HashMap::insert / the write through HashMap::entry
Put(map, key, value) == (key :> value) @@ map

\* detect_ambiguities, first loop, over the entries in the iteration order `order`
RECURSIVE IngestInOrder(_, _, _)
IngestInOrder(dict, order, fd) ==
    IF order = <<>> THEN fd
    ELSE LET ipa_no_stress == remove_stress_markers(dict[Head(order)])
             collapsed == collapse_key(ipa_no_stress)
             st == ingest_word(ipa_no_stress)
             entry == IF collapsed \in DOMAIN fd THEN fd[collapsed] ELSE DefaultBuildState
         IN IngestInOrder(dict, Tail(order), Put(fd, collapsed, MergeState(entry, st)))

\* detect_ambiguities, second loop: the keys with a non-zero mask
BuildTable(fd) ==
    [key \in {x \in DOMAIN fd : AmbMask(fd[x]) # {}} |-> LowestBitsFirst(AmbMask(fd[key]))]

\* detect_ambiguities as a function of the dictionary and the order in which
\* english_to_ipa.iter() yields its entries
detect_ambiguities(dict, order) == BuildTable(IngestInOrder(dict, order, EmptyMap))

\* translate: the token loop from token n (zero-based); st = [ok, units, spaces, j]
RECURSIVE TokensFrom(_, _, _, _)
TokensFrom(dict, tokens, n, st) ==
    IF n >= Len(tokens) \/ ~st.ok THEN st
    ELSE TokensFrom(dict, tokens, n + 1,
                    TokenBody(dict, tokens[n + 1], n, st.units, st.spaces, st.j))

\* translate: the assembly loop from unit n (zero-based)
RECURSIVE AssembleFrom(_, _, _, _, _)
AssembleFrom(units, spaces, ambiguities, n, out) ==
    IF n >= Len(units) THEN [ok |-> TRUE, out |-> out]
    ELSE LET u == UnitText(units[n + 1], ambiguities) IN
         IF u.ok /\ n + 1 < Len(spaces)
         THEN AssembleFrom(units, spaces, ambiguities, n + 1,
                           out \o u.out \o translate_to_runic(spaces[n + 2]))
         ELSE [ok |-> FALSE, out |-> out]

\* translate as a function of the dictionary, the table and the text;
\* ok is FALSE when a step panics
translate(dict, ambiguities, text) ==
    LET lowered == MakeAsciiLowercase(text)
        t == TokensFrom(dict, split_whitespace(lowered), 0,
                        [ok |-> TRUE, units |-> <<>>,
                         spaces |-> parse_whitespace(lowered), j |-> 0])
    IN IF ~t.ok \/ t.spaces = <<>> THEN [ok |-> FALSE, out |-> <<>>]
       ELSE AssembleFrom(t.units, t.spaces, ambiguities, 0, t.spaces[1])

\* EnglishToRunes before detect_ambiguities has run, holding the dictionary dict
Constructing(dict) ==
    /\ english_to_ipa = dict
    /\ todo = DOMAIN dict
    /\ full_dict = EmptyMap
    /\ keys_todo = {}
    /\ amb_map = EmptyMap
    /\ shifts = {}
    /\ input = <<>>
    /\ words = <<>>
    /\ whitespaces = <<>>
    /\ ipa_words = <<>>
    /\ i = 0
    /\ j = 0
    /\ k = 0
    /\ translated = <<>>
    /\ pc = IF dict = EmptyMap THEN "build" ELSE "ingest"

translate_vars == <<input, words, whitespaces, ipa_words, i, j, k, translated>>
detect_vars == <<english_to_ipa, todo, full_dict, keys_todo, amb_map, shifts>>

\* detect_ambiguities, first loop: one entry of the dictionary, in the
\* HashMap's iteration order (any order)
IngestEntry ==
    /\ pc = "ingest"
    /\ \E eng \in todo :
          LET ipa_no_stress == remove_stress_markers(english_to_ipa[eng])
              collapsed == collapse_key(ipa_no_stress)
              st == ingest_word(ipa_no_stress)
              entry == IF collapsed \in DOMAIN full_dict
                       THEN full_dict[collapsed] ELSE DefaultBuildState
          IN /\ full_dict' = Put(full_dict, collapsed, MergeState(entry, st))
             /\ shifts' = shifts \cup ShiftCounts(ipa_no_stress, 0)
             /\ todo' = todo \ {eng}
             /\ keys_todo' = IF todo' = {} THEN DOMAIN full_dict' ELSE {}
             /\ pc' = IF todo' = {} THEN "build" ELSE "ingest"
    /\ UNCHANGED <<english_to_ipa, amb_map>>
    /\ UNCHANGED translate_vars

\* detect_ambiguities, second loop: one key of full_dict, in any order
BuildKey ==
    /\ pc = "build"
    /\ \E key \in keys_todo :
          LET amb == AmbMask(full_dict[key]) IN
          /\ amb_map' = IF amb # {} THEN Put(amb_map, key, LowestBitsFirst(amb))
                        ELSE amb_map
          /\ keys_todo' = keys_todo \ {key}
    /\ UNCHANGED <<english_to_ipa, todo, full_dict, shifts, pc>>
    /\ UNCHANGED translate_vars

\* detect_ambiguities returns amb_map; EnglishToRunes is constructed
Constructed ==
    /\ pc = "build"
    /\ keys_todo = {}
    /\ pc' = "ready"
    /\ UNCHANGED detect_vars
    /\ UNCHANGED translate_vars

\* translate(text) on a constructed EnglishToRunes, up to the token loop; the
\* locals of an earlier call are gone
TranslateStart(text) ==
    /\ pc \in {"ready", "done"}
    /\ input' = text
    /\ words' = MakeAsciiLowercase(text)
    /\ whitespaces' = parse_whitespace(words')
    /\ ipa_words' = <<>>
    /\ i' = 0
    /\ j' = 0
    /\ k' = 0
    /\ translated' = <<>>
    /\ pc' = "tokens"
    /\ UNCHANGED detect_vars

\* translate: one iteration of the loop over words.split_whitespace().enumerate()
TranslateToken ==
    /\ pc = "tokens"
    /\ i < Len(split_whitespace(words))
    /\ LET r == TokenBody(english_to_ipa, split_whitespace(words)[i + 1], i,
                          ipa_words, whitespaces, j)
       IN IF r.ok
          THEN /\ ipa_words' = r.units
               /\ whitespaces' = r.spaces
               /\ j' = r.j
               /\ i' = i + 1
               /\ pc' = "tokens"
          ELSE /\ pc' = "panic"
               /\ UNCHANGED <<ipa_words, whitespaces, i, j>>
    /\ UNCHANGED <<input, words, k, translated>>
    /\ UNCHANGED detect_vars

\* translate: `translated.push_str(&whitespaces[0])`
AssembleStart ==
    /\ pc = "tokens"
    /\ i = Len(split_whitespace(words))
    /\ IF whitespaces = <<>>
       THEN pc' = "panic" /\ UNCHANGED <<k, translated>>
       ELSE /\ translated' = whitespaces[1]
            /\ k' = 0
            /\ pc' = "assemble"
    /\ UNCHANGED <<input, words, whitespaces, ipa_words, i, j>>
    /\ UNCHANGED detect_vars

\* mutant: the run that follows a unit is pushed as it is, not rune-mapped
AssembleUnit_raw_run ==
    /\ pc = "assemble"
    /\ k < Len(ipa_words)
    /\ LET u == UnitText(ipa_words[k + 1], amb_map) IN
       IF u.ok /\ k + 1 < Len(whitespaces)
       THEN /\ translated' = translated \o u.out \o whitespaces[k + 2]
            /\ k' = k + 1
            /\ pc' = "assemble"
       ELSE /\ pc' = "panic"
            /\ UNCHANGED <<k, translated>>
    /\ UNCHANGED <<input, words, whitespaces, ipa_words, i, j>>
    /\ UNCHANGED detect_vars

\* translate: one iteration of the loop over ipa_words.iter().enumerate()
AssembleUnit ==
    /\ pc = "assemble"
    /\ k < Len(ipa_words)
    /\ LET u == UnitText(ipa_words[k + 1], amb_map) IN
       IF u.ok /\ k + 1 < Len(whitespaces)
       THEN /\ translated' = translated \o u.out \o translate_to_runic(whitespaces[k + 2])
            /\ k' = k + 1
            /\ pc' = "assemble"
       ELSE /\ pc' = "panic"
            /\ UNCHANGED <<k, translated>>
    /\ UNCHANGED <<input, words, whitespaces, ipa_words, i, j>>
    /\ UNCHANGED detect_vars

\* translate returns `translated`
Return ==
    /\ pc = "assemble"
    /\ k = Len(ipa_words)
    /\ pc' = "done"
    /\ UNCHANGED detect_vars
    /\ UNCHANGED translate_vars

\* every step but the calls of translate
Run ==
    \/ IngestEntry
    \/ BuildKey
    \/ Constructed
    \/ TranslateToken
    \/ AssembleStart
    \/ AssembleUnit
    \/ Return

-----------------------------------------------------------------------------
(* Ambiguity detection: dictionaries of voicing-sensitive transcriptions *)

\* longest tail of a transcription
MaxAmbLen == 2

AmbAlphabet == {"f", "v", "s", "S", "z", "a", "stress1"}
VoicingAlphabet == {"f", "v", "s", "z"}

\* the tails of m symbols: of every symbol up to two, of the voicing symbols beyond
TailsOfLen(m) == [1..m -> IF m <= 2 THEN AmbAlphabet ELSE VoicingAlphabet]

AmbTails == UNION {TailsOfLen(m) : m \in 1..MaxAmbLen}

\* the strings over alphabet of length 1..n
StringsUpTo(alphabet, n) ==
    UNION {[1..m -> alphabet] : m \in 1..n}

\* MaskBits - 1 symbols: a transcription with this prefix has its first tail
\* position on the last bit of the mask and its second beyond the mask
LongPrefix == [n \in 1..(MaskBits - 1) |-> "a"]

\* what follows the long prefix: the voicing symbols at positions MaskBits - 1
\* and MaskBits
LongTails == UNION {[1..m -> VoicingAlphabet] : m \in 1..2}

AmbWords == {<<"l","e","a","f">>, <<"l","e","a","v","e">>}

AmbDicts ==
    [AmbWords -> AmbTails]
    \cup {[w \in AmbWords |-> LongPrefix \o t[w]] : t \in [AmbWords -> LongTails]}

InitAmb == \E dict \in AmbDicts : Constructing(dict)

\* the texts translated under SpecAmb: the word "leaf" alone and before a mark
AmbTexts == {<<"l","e","a","f">>, <<"l","e","a","f",".">>}

NextAmb ==
    \/ Run
    \/ pc = "ready" /\ \E text \in AmbTexts : TranslateStart(text)
    \/ pc = "done" /\ TranslateStart(input)

SpecAmb == InitAmb /\ [][NextAmb]_vars

-----------------------------------------------------------------------------
(* Translation: a sample dictionary under texts of several tokens, and   *)
(* one-entry dictionaries of every short transcription under one token  *)

\* most tokens of a text
MaxTokens == 2
\* longest transcription of a suffixed word
MaxSuffixLen == 2
\* longest transcription of the 'll word
MaxLlLen == 3

LEAF == <<"l","e","a","f">>
ZED == <<"z","e","d">>

\* "leaf" and the letter "b" with their transcriptions
SampleDict ==
    (LEAF :> <<"stress1", "l", "i", "f">>) @@ (<<"b">> :> <<"stress1", "b", "i">>)

Capitalize(w) == <<CHOOSE c \in DOMAIN LowerOf : LowerOf[c] = w[1]>> \o Tail(w)

\* tokens of the sample texts: dictionary words, a word that is not in the
\* dictionary, capitals, trailing marks, hyphens, and nothing but marks or hyphens
SampleCores == {LEAF, ZED, <<>>}
SampleTokens ==
    {LEAF, <<"b">>, ZED, Capitalize(LEAF), Capitalize(ZED)}
    \cup {c \o <<m>> : c \in SampleCores, m \in {".", "?"}}
    \cup {a \o <<"-">> \o b : a \in SampleCores, b \in SampleCores}
    \cup {LEAF \o <<"-">> \o ZED \o <<".">>, <<"-", ";">>, Capitalize(ZED) \o <<"!">>,
          <<"b", "-">> \o LEAF,
          ZED \o <<"-">> \o LEAF \o <<"-">> \o ZED \o <<",">>}

LeadRuns == {<<>>, <<" ", "\n">>}
SepRuns == {<<" ">>, <<"\n", " ">>, <<" ", "\t">>}

\* tokens of the texts of more than two tokens
LongTextTokens == {LEAF, <<"b">>, ZED \o <<".">>, LEAF \o <<"-">> \o ZED}

TokensOf(n) == IF n <= 2 THEN SampleTokens ELSE LongTextTokens

\* the token/run pairs of a text of n tokens: a run follows every token, and
\* only the last run may be empty
Bodies(n) ==
    {b \in [1..n -> TokensOf(n) \X (SepRuns \cup {<<>>})] :
        \A m \in 1..(n - 1) : b[m][2] # <<>>}

TextOf(lead, b) == lead \o Concat([m \in 1..Len(b) |-> b[m][1] \o b[m][2]])

\* texts where a run of two spaces follows a dictionary token, an untranslated
\* token and a hyphen-split token that end in a mark
TwoSpaceTexts ==
    {LEAF \o <<".", " ", " ", "b">>,
     ZED \o <<"?", " ", " ">>,
     LEAF \o <<"-">> \o ZED \o <<"!", " ", " ", "\n">> \o LEAF,
     LEAF \o <<" ", " ", "b", ";">>}

SampleTexts ==
    {TextOf(lead, b) : lead \in LeadRuns, b \in UNION {Bodies(n) : n \in 0..MaxTokens}}
    \cup TwoSpaceTexts

\* surface words that select each arm of handle_ipa_word
SuffixWords ==
    {<<"i","s","n","'","t">>, <<"i","t","'","d">>, <<"i","t","'","s">>,
     <<"c","a","t","s","'">>, <<"w","e","'","r","e">>, <<"w","e","'","v","e">>,
     <<"b","o","x">>, <<"i","f">>, <<"a">>, <<"b">>}
SuffixAlphabet == {"schwa", "small_i", "turned_v", "i", "k", "s", "stress1"}

WE_LL == <<"w","e","'","l","l">>
LlAlphabet == {"schwa", "turned_v", "rev_eps", "a", "i", "l"}

SuffixDicts ==
    {(w :> t) : w \in SuffixWords, t \in StringsUpTo(SuffixAlphabet, MaxSuffixLen)}
    \cup {(WE_LL :> t) : t \in StringsUpTo(LlAlphabet, MaxLlLen)}

\* the one-token texts a one-entry dictionary is put under
SuffixTexts(w) ==
    {w, w \o <<".">>, w \o <<"!", " ">>, w \o <<"-">> \o w, Capitalize(w)}

Texts(dict) ==
    IF dict = SampleDict THEN SampleTexts
    ELSE UNION {SuffixTexts(w) : w \in DOMAIN dict}

Init == \E dict \in {SampleDict} \cup SuffixDicts : Constructing(dict)

\* translate is called with a text, and again with the text it has returned for
Next ==
    \/ Run
    \/ pc = "ready" /\ \E text \in Texts(english_to_ipa) : TranslateStart(text)
    \/ pc = "done" /\ TranslateStart(input)

Spec == Init /\ [][Next]_vars

-----------------------------------------------------------------------------
(* Pair folding: one-entry dictionaries whose transcription holds the halves *)
(* of the diphthong and r-coloured vowel rules                               *)

\* longest transcription of the folded word
MaxFoldLen == 3

FoldWord == <<"e", "a", "r">>

\* first halves a, e, o, small_i; second halves small_i, w, turned_r; k in no rule
FoldAlphabet == {"a", "e", "o", "small_i", "w", "turned_r", "k"}

FoldDicts == {(FoldWord :> t) : t \in StringsUpTo(FoldAlphabet, MaxFoldLen)}

InitFold == \E dict \in FoldDicts : Constructing(dict)

SpecFold == InitFold /\ [][Next]_vars

-----------------------------------------------------------------------------
(* The letter x: one-entry dictionaries for words with no, one and two x and *)
(* transcriptions over k, s and a                                            *)

\* longest transcription of a word with x
MaxMarkLen == 4

MarkWords == {<<"a", "k">>, <<"a", "x">>, <<"x", "a", "x">>}

MarkAlphabet == {"k", "s", "a"}

MarkDicts ==
    {(w :> t) : w \in MarkWords, t \in StringsUpTo(MarkAlphabet, MaxMarkLen)}

InitMark == \E dict \in MarkDicts : Constructing(dict)

SpecMark == InitMark /\ [][Next]_vars

-----------------------------------------------------------------------------
(* Properties of ambiguity detection and disambiguation (SpecAmb) *)

Range(seq) == {seq[n] : n \in 1..Len(seq)}

\* the dictionary's transcriptions, stress markers removed
Transcriptions ==
    {remove_stress_markers(english_to_ipa[w]) : w \in DOMAIN english_to_ipa}

\* the symbol at zero-based position p of u, "" beyond its end
At(u, p) == IF p < Len(u) THEN u[p + 1] ELSE ""

\* u holds an unvoiced and v the matching voiced sound at zero-based position p
Conflict(u, v, p) ==
    \/ At(u, p) = "f" /\ At(v, p) = "v"
    \/ At(u, p) \in {"s", "S"} /\ At(v, p) = "z"

\* position p is listed for the shape key in the table
Flagged(table, key, p) == key \in DOMAIN table /\ p \in Range(table[key])

\* the transcriptions of the dictionary that collapse to the shape of u
SameShapeAs(u) ==
    LET key == collapse_key(u)
    IN {a \in Transcriptions : collapse_key(a) = key}

\* C4: once detect_ambiguities has returned, position p of a shape is in the
\* Ambiguity Table iff p < 32 and two transcriptions of that shape (stress
\* markers removed) hold f and v, or s/S and z, at p; every key of the table
\* is the shape of a transcription and lists at least one position.
C4_DetectIff ==
    pc = "ready" =>
        /\ \A u \in Transcriptions :
              LET key == collapse_key(u)
                  same == SameShapeAs(u)
                  listed == IF key \in DOMAIN amb_map THEN Range(amb_map[key]) ELSE {}
              IN \A p \in 0..Len(u) :
                    p \in listed <=>
                       /\ p < 32
                       /\ \E a \in same, b \in same : Conflict(a, b, p)
        /\ \A key \in DOMAIN amb_map :
              /\ amb_map[key] # <<>>
              /\ \E u \in Transcriptions : collapse_key(u) = key

\* C4 witness: a shape is in the table with a flagged S/z position, while
\* another position of the same shape, holding f in both words, is not flagged.
C4_Witness ==
    /\ pc = "ready"
    /\ \E u \in Transcriptions :
          /\ \E p \in 0..Len(u) : At(u, p) = "S" /\ Flagged(amb_map, collapse_key(u), p)
          /\ \E q \in 0..Len(u) : At(u, q) = "f" /\ ~Flagged(amb_map, collapse_key(u), q)

\* the phonetic strings disambiguate is applied to: the short ones under
\* every table, the long ones under the tables of the long dictionaries
PhoneticStrings ==
    AmbTails \cup
    (IF \E w \in DOMAIN english_to_ipa : Len(english_to_ipa[w]) >= MaskBits
     THEN {LongPrefix \o t : t \in LongTails} ELSE {})

\* C5: for a phonetic string x (positions counted with the stress markers
\* removed) and the table T, disambiguate(x, T) keeps the length, renders
\* an f at p as f iff p is listed under the shape of x and as v otherwise, an
\* s (or S) at p as s iff p is listed and as z otherwise, leaves v and z as
\* they are, and holds no f and no s when the shape of x has no entry in T.
C5_Disambiguate ==
    pc = "ready" =>
        \A x \in PhoneticStrings :
            LET xs == remove_stress_markers(x)
                key == collapse_key(xs)
                listed == IF key \in DOMAIN amb_map THEN Range(amb_map[key]) ELSE {}
                y == disambiguate(x, amb_map)
            IN /\ Len(y) = Len(xs)
               /\ \A p \in 0..(Len(xs) - 1) :
                     /\ xs[p + 1] = "f" => y[p + 1] = (IF p \in listed THEN "f" ELSE "v")
                     /\ xs[p + 1] \in {"s", "S"} =>
                           y[p + 1] = (IF p \in listed THEN "s" ELSE "z")
                     /\ xs[p + 1] \in {"v", "z"} => y[p + 1] = xs[p + 1]
               /\ key \notin DOMAIN amb_map => \A n \in 1..Len(y) : y[n] \notin {"f", "s"}

\* C5 witness: under a table with an entry, one string keeps an s at a listed
\* position and voices an f at a position that is not listed, and another
\* string, whose shape has no entry, holds an f that is voiced.
C5_Witness ==
    /\ pc = "ready"
    /\ amb_map # EmptyMap
    /\ \E x \in PhoneticStrings :
          LET key == collapse_key(remove_stress_markers(x))
              y == disambiguate(x, amb_map)
          IN /\ Len(x) = 2
             /\ x[1] = "S" /\ Flagged(amb_map, key, 0) /\ y[1] = "s"
             /\ x[2] = "f" /\ ~Flagged(amb_map, key, 1) /\ y[2] = "v"
    /\ \E x \in PhoneticStrings :
          /\ collapse_key(remove_stress_markers(x)) \notin DOMAIN amb_map
          /\ x = <<"f">>
          /\ disambiguate(x, amb_map) = <<"v">>

\* the runes a dictionary transcription is rendered with
Rendering(ipa) ==
    translate_to_runic(translate_to_runic_2(disambiguate(ipa, amb_map)).out)

\* u and v share a shape, and at the zero-based position p < 32 u holds f
\* where v holds v, or u holds s where v holds z
VoicingPair(u, v, p) ==
    /\ collapse_key(u) = collapse_key(v)
    /\ p < 32
    /\ \/ At(u, p) = "f" /\ At(v, p) = "v"
       \/ At(u, p) = "s" /\ At(v, p) = "z"

KeyedStrings ==
    {english_to_ipa[w] : w \in DOMAIN english_to_ipa} \cup Transcriptions

\* u and v have the same length and at every position hold the same symbol,
\* or both a symbol of {f, v}, or both a symbol of {s, S, z}
SameShape(u, v) ==
    /\ Len(u) = Len(v)
    /\ \A n \in 1..Len(u) :
          \/ u[n] = v[n]
          \/ u[n] \in {"f", "v"} /\ v[n] \in {"f", "v"}
          \/ u[n] \in {"s", "S", "z"} /\ v[n] \in {"s", "S", "z"}

\* w with the symbol at position n swapped for its voicing partner
SwapVoicing(w, n) ==
    [w EXCEPT ![n] = CASE @ = "f" -> "v" [] @ = "v" -> "f"
                       [] @ = "s" -> "z" [] @ = "z" -> "s" [] OTHER -> @]

\* C7: two strings have the same collapsed key iff they have the same shape
\* (same length; at each position the same symbol, or both of {f, v}, or both
\* of {s, S, z}); swapping f with v or s with z at a position leaves the key
\* unchanged; so the first loop of detect_ambiguities leaves one key per class
\* of transcriptions of the same shape.
C7_CollapseKey ==
    /\ todo = DOMAIN english_to_ipa =>
          /\ \A u \in KeyedStrings, v \in KeyedStrings :
                (collapse_key(u) = collapse_key(v)) <=> SameShape(u, v)
          /\ \A u \in KeyedStrings : \A n \in 1..Len(u) :
                collapse_key(SwapVoicing(u, n)) = collapse_key(u)
    /\ (pc = "build" /\ keys_todo = DOMAIN full_dict) =>
          Cardinality(DOMAIN full_dict) =
             Cardinality({{v \in Transcriptions : SameShape(u, v)} : u \in Transcriptions})

\* C7 witness: both entries are ingested under one key; they differ by S against
\* z at one position and hold the same other symbol at the other.
C7_Witness ==
    /\ pc = "build"
    /\ Cardinality(DOMAIN full_dict) = 1
    /\ \E u \in Transcriptions, v \in Transcriptions :
          /\ Len(u) = 2 /\ Len(v) = 2
          /\ u[1] = "S" /\ v[1] = "z"
          /\ u[2] = "a" /\ v[2] = "a"

\* the orders in which the entries of a dictionary can be visited
Orders(S) ==
    {o \in [1..Cardinality(S) -> S] :
        \A a \in 1..Cardinality(S), b \in 1..Cardinality(S) : a # b => o[a] # o[b]}

\* C8: whatever the order in which detect_ambiguities has visited the entries
\* and the keys, the table it returns is the one every visiting order of the
\* same dictionary yields (the same positions under the same shapes), and the
\* string translate returns is the one function of the dictionary and the
\* input: a second translation of the same input returns the same string.
C8_Deterministic ==
    /\ pc = "ready" =>
          \A order \in Orders(DOMAIN english_to_ipa) :
             /\ detect_ambiguities(english_to_ipa, order) = amb_map
             /\ \A key \in DOMAIN amb_map :
                   Range(detect_ambiguities(english_to_ipa, order)[key]) = Range(amb_map[key])
    /\ pc = "done" =>
          \A order \in Orders(DOMAIN english_to_ipa) :
             translate(english_to_ipa, detect_ambiguities(english_to_ipa, order), input)
                = [ok |-> TRUE, out |-> translated]

\* C8 witness: two entries were merged under one shape, the table lists a
\* position for it, and a translation that consulted the table has returned.
C8_Witness ==
    /\ pc = "done"
    /\ Cardinality(DOMAIN english_to_ipa) = 2
    /\ Cardinality(DOMAIN full_dict) = 1
    /\ amb_map # EmptyMap
    /\ translated = <<"FEOH", "FEOH">>

\* C9: no index of the Ambiguity Table and no shift count of ingest_word is 32
\* or more, whatever the length of the transcriptions; of the voicing
\* conflicts of two transcriptions of one shape, those at positions below 32
\* are flagged and those at positions 32 and beyond are not.
C9_MaskBound ==
    /\ \A key \in DOMAIN amb_map : \A n \in 1..Len(amb_map[key]) : amb_map[key][n] < 32
    /\ \A n \in shifts : n < 32
    /\ pc = "ready" =>
          \A u \in Transcriptions :
             LET key == collapse_key(u)
             IN \A v \in SameShapeAs(u) : \A p \in 0..Len(u) :
                   Conflict(u, v, p) => (Flagged(amb_map, key, p) <=> p < 32)

\* C9 witness: two transcriptions of 33 symbols conflict at positions 31 and
\* 32; position 31 is flagged and position 32 is not.
C9_Witness ==
    /\ pc = "ready"
    /\ \E u \in Transcriptions, v \in Transcriptions :
          /\ Len(u) = 33 /\ collapse_key(u) = collapse_key(v)
          /\ Conflict(u, v, 31) /\ Conflict(u, v, 32)
          /\ Flagged(amb_map, collapse_key(u), 31)
          /\ ~Flagged(amb_map, collapse_key(u), 32)
          /\ 31 \in shifts

-----------------------------------------------------------------------------
(* Properties of translate (Spec) *)

\* s with every ASCII upper-case letter replaced by its lower-case letter
Lowered(s) == [n \in 1..Len(s) |-> IF s[n] \in DOMAIN LowerOf THEN LowerOf[s[n]] ELSE s[n]]

\* the text is one token: not empty and without a whitespace character
SingleToken(s) == s # <<>> /\ \A n \in 1..Len(s) : s[n] \notin {" ", "\n", "\t"}

\* the text is one token without a hyphen, and the word looked up for it (lower
\* case, a trailing mark removed) is not in the dictionary
AbsentToken(s) ==
    /\ SingleToken(s)
    /\ \A n \in 1..Len(s) : s[n] # "-"
    /\ LET low == Lowered(s)
           word == IF low[Len(low)] \in {",", ":", ";", ".", "!", "?"}
                   THEN SubSeq(low, 1, Len(low) - 1) ELSE low
       IN word \notin DOMAIN english_to_ipa

\* C1 as stated: translate returns a single token that is absent from the
\* dictionary and holds no hyphen exactly as it was passed, upper-case letters
\* and a trailing mark included.
C1_AsStated ==
    (pc = "done" /\ AbsentToken(input)) => translated = input

\* C1 amended: translate returns a single token that holds no hyphen and
\* whose lower-case form (a trailing mark removed) is absent from the
\* dictionary with its ASCII upper-case letters lowered and every other
\* character, a trailing mark included, unchanged; it returns exactly the
\* token when the token holds no ASCII upper-case letter.
C1_Lowercased ==
    (pc = "done" /\ AbsentToken(input)) =>
        /\ translated = Lowered(input)
        /\ (\A n \in 1..Len(input) : input[n] \notin DOMAIN LowerOf) => translated = input

\* C1 witness: "Zed!" has been translated to "zed!".
C1_Witness ==
    /\ pc = "done"
    /\ AbsentToken(input)
    /\ input = <<"Z", "e", "d", "!">>
    /\ translated = <<"z", "e", "d", "!">>

\* every transcription of the dictionary holds a symbol that is not a stress marker
Voiced == \A w \in DOMAIN english_to_ipa :
             \E n \in 1..Len(english_to_ipa[w]) :
                english_to_ipa[w][n] \notin {"stress1", "stress2"}

Runs(s, C, in) ==
    {r \in (1..Len(s)) \X (1..Len(s)) :
        /\ r[1] <= r[2]
        /\ \A n \in r[1]..r[2] : (s[n] \in C) = in
        /\ r[1] = 1 \/ (s[r[1] - 1] \in C) # in
        /\ r[2] = Len(s) \/ (s[r[2] + 1] \in C) # in}

\* the n-th interval of R from the left
NthRun(R, n) == CHOOSE r \in R : Cardinality({q \in R : q[1] < r[1]}) = n - 1

Slice(s, r) == SubSeq(s, r[1], r[2])

\* the whitespace characters of a text, and the characters they are output as
WhitespaceChars == {" ", "\n", "\t"}
SeparatorChars == {"RUNIC_PUNCT", " ", "\n", "\t"}

\* a whitespace run with every literal space replaced by the separator rune
Separated(run) == [n \in 1..Len(run) |-> IF run[n] = " " THEN "RUNIC_PUNCT" ELSE run[n]]

\* every token of the text is, in lower case, a word of the dictionary
AllDictionaryWords(s) ==
    \A r \in Runs(s, WhitespaceChars, FALSE) : Lowered(Slice(s, r)) \in DOMAIN english_to_ipa

\* C3: for an input whose tokens are all dictionary words, the output holds
\* one unit per token, in order, each the rendering of its token alone, and
\* every whitespace run after the first token is reproduced in order and with
\* its length: a literal space as the separator rune, any other whitespace
\* character unchanged.
C3_TokensAndRuns ==
    (pc = "done" /\ AllDictionaryWords(input)) =>
        LET tokens == Runs(input, WhitespaceChars, FALSE)
            units == Runs(translated, SeparatorChars, FALSE)
            runs == {r \in Runs(input, WhitespaceChars, TRUE) : r[1] > 1}
            seps == {r \in Runs(translated, SeparatorChars, TRUE) : r[1] > 1}
        IN /\ Cardinality(units) = Cardinality(tokens)
           /\ \A n \in 1..Cardinality(tokens) :
                 [ok |-> TRUE, out |-> Slice(translated, NthRun(units, n))]
                    = translate(english_to_ipa, amb_map, Slice(input, NthRun(tokens, n)))
           /\ Cardinality(seps) = Cardinality(runs)
           /\ \A n \in 1..Cardinality(runs) :
                 Slice(translated, NthRun(seps, n)) = Separated(Slice(input, NthRun(runs, n)))

\* C3 witness: " \nleaf\n b \t" has been translated; the two units are
\* followed by newline + separator rune and by separator rune + tab.
C3_Witness ==
    /\ pc = "done"
    /\ AllDictionaryWords(input)
    /\ input = <<" ", "\n", "l", "e", "a", "f", "\n", " ", "b", " ", "\t">>
    /\ translated = <<" ", "\n", "LAGU", "IS", "IS", "FEOH", "\n", "RUNIC_PUNCT",
                      "b", "RUNIC_PUNCT", "\t">>

\* the phonetic string the 'll arm builds from a transcription t that ends in l:
\* one schwa-class vowel or `a` before the l is gone, a last `i` is then `I`
EditedLl(t) ==
    LET base == SubSeq(t, 1, Len(t) - 1)
        elided == IF base # <<>> /\ base[Len(base)] \in {"schwa", "turned_v", "rev_eps", "a"}
                  THEN SubSeq(base, 1, Len(base) - 1) ELSE base
        promoted == IF elided # <<>> /\ elided[Len(elided)] = "i"
                    THEN SubSeq(elided, 1, Len(elided) - 1) \o <<"I">> ELSE elided
    IN promoted \o <<"'", "l">>

\* C10: for the dictionary word "we'll" with a transcription that ends in l,
\* every unit made from it is the transcription with a schwa-class vowel (or
\* `a`) before the final l removed, a then-last `i` promoted to `I`, and
\* apostrophe + l appended (a stripped mark after it); the output for the word
\* ends in apostrophe + LAGU, so no vowel rune stands directly before the last LAGU.
C10_LlSuffix ==
    (/\ pc = "done"
     /\ DOMAIN english_to_ipa = {WE_LL}
     /\ english_to_ipa[WE_LL][Len(english_to_ipa[WE_LL])] = "l") =>
        LET body == EditedLl(english_to_ipa[WE_LL]) IN
        /\ \A n \in 1..Len(ipa_words) :
              /\ ipa_words[n].translated_to_ipa
              /\ ipa_words[n].word \in {body} \cup {body \o <<m>> : m \in Punctuation}
        /\ Lowered(input) = WE_LL =>
              /\ Len(translated) >= 2
              /\ SubSeq(translated, Len(translated) - 1, Len(translated)) = <<"'", "LAGU">>

\* C10 witness: "we'll" with the transcription i-schwa-l has been translated:
\* the schwa is elided, the i promoted, and the output is IS ' LAGU.
C10_Witness ==
    /\ pc = "done"
    /\ input = WE_LL
    /\ english_to_ipa = (WE_LL :> <<"i", "schwa", "l">>)
    /\ ipa_words = <<[word |-> <<"I", "'", "l">>, translated_to_ipa |-> TRUE]>>
    /\ translated = <<"IS", "'", "LAGU">>

\* the unit handle_ipa_word or the untranslated branch makes of the word s
\* when s is a token of its own
StandaloneUnit(s) ==
    IF s \in DOMAIN english_to_ipa
    THEN handle_ipa_word(<<>>, english_to_ipa[s], s).units[1]
    ELSE [word |-> s, translated_to_ipa |-> FALSE]

\* the text is one token with a hyphen whose looked-up word is not in the dictionary
HyphenatedToken(s) ==
    /\ SingleToken(s)
    /\ StrippedWord(Lowered(s)) \notin DOMAIN english_to_ipa
    /\ \E n \in 1..Len(StrippedWord(Lowered(s))) : StrippedWord(Lowered(s))[n] = "-"

\* C11 as stated: for a hyphenated token that is not a dictionary word there
\* is one unit per segment, the unit of every segment found in the dictionary
\* is the unit the segment gets as a token of its own (a stripped mark goes
\* after the last one), and a literal hyphen stands between consecutive units.
C11_AsStated ==
    (pc = "done" /\ HyphenatedToken(input)) =>
        LET word == StrippedWord(Lowered(input))
            mark == StrippedMark(Lowered(input))
            pieces == split(word, "-")
        IN /\ Len(ipa_words) = Len(pieces)
           /\ \A n \in 1..Len(pieces) :
                 pieces[n] \in DOMAIN english_to_ipa =>
                    LET alone == StandaloneUnit(pieces[n]) IN
                    ipa_words[n] = IF n = Len(pieces) /\ mark # " "
                                   THEN [alone EXCEPT !.word = Append(@, mark)]
                                   ELSE alone
           /\ \A n \in 1..(Len(pieces) - 1) : whitespaces[n + 1] = <<"-">>

\* C11 witness of the divergence: "b-b" has been translated under a dictionary
\* that holds "b"; both segments were put through the phonetic path, while
\* "b" as a token of its own is emitted as the literal letter.
C11_Witness ==
    /\ pc = "done"
    /\ input = <<"b", "-", "b">>
    /\ <<"b">> \in DOMAIN english_to_ipa
    /\ ~StandaloneUnit(<<"b">>).translated_to_ipa
    /\ Len(ipa_words) = 2
    /\ ipa_words[1].translated_to_ipa /\ ipa_words[2].translated_to_ipa
    /\ whitespaces[2] = <<"-">>

\* the whitespace run a text starts with, <<>> when it starts with a token
LeadingRun(s) ==
    LET lead == {r \in Runs(s, WhitespaceChars, TRUE) : r[1] = 1}
    IN IF lead = {} THEN <<>> ELSE Slice(s, CHOOSE r \in lead : TRUE)

\* C12 as stated: the output starts with the leading whitespace run of the
\* input rune-mapped as the runs that follow a unit are: every literal space as
\* the separator rune, every other whitespace character unchanged.
C12_AsStated ==
    pc = "done" =>
        /\ Len(translated) >= Len(LeadingRun(input))
        /\ SubSeq(translated, 1, Len(LeadingRun(input))) = Separated(LeadingRun(input))

\* C12 witness of the divergence: " \nleaf" has been translated, and the
\* output starts with the literal space of the input.
C12_Witness ==
    /\ pc = "done"
    /\ input = <<" ", "\n", "l", "e", "a", "f">>
    /\ LeadingRun(input) = <<" ", "\n">>
    /\ translated = <<" ", "\n", "LAGU", "IS", "IS", "FEOH">>

-----------------------------------------------------------------------------
(* Properties of translate_to_runic_2 (SpecFold) *)

\* the pair at positions n, n + 1 of v matches a rule of the fold table
Matches(v, n) == FoldPair(v[n], v[n + 1]) # <<>>

\* the positions where a fold starts: going left to right, a pair is folded
\* iff it matches a rule and its first symbol was not consumed by the fold before
FoldStarts(v) ==
    CHOOSE F \in SUBSET (1..(Len(v) - 1)) :
        \A n \in 1..(Len(v) - 1) : n \in F <=> (Matches(v, n) /\ (n - 1) \notin F)

\* what the symbol at position n contributes: the rune of the pair it starts,
\* nothing when it is the second half of a folded pair, itself otherwise
Contribution(v, n) ==
    IF n \in FoldStarts(v) THEN FoldPair(v[n], v[n + 1])
    ELSE IF (n - 1) \in FoldStarts(v) THEN <<>>
    ELSE <<v[n]>>

\* the strings translate_to_runic_2 has been or is about to be applied to
FoldInputs ==
    {disambiguate(ipa_words[n].word, amb_map) :
        n \in {m \in 1..Len(ipa_words) : ipa_words[m].translated_to_ipa}}

\* C13: translate_to_runic_2 splits its input left to right into units that do
\* not overlap: a pair is folded iff it matches a rule and its first symbol was
\* not consumed by the fold before it, no symbol is both the second half of a
\* fold and the first half of another, the last symbol is emitted verbatim iff
\* no fold consumed it, and the output is the concatenation of what each
\* symbol contributes.
C13_Partition ==
    pc \in {"assemble", "done"} =>
        \A v \in FoldInputs :
            LET F == FoldStarts(v)
                r == translate_to_runic_2(v)
            IN /\ r.ok
               /\ \A n \in F : (n + 1) \notin F /\ Matches(v, n)
               /\ r.out = Concat([n \in 1..Len(v) |-> Contribution(v, n)])
               /\ (Len(v) - 1) \notin F =>
                     r.out # <<>> /\ r.out[Len(r.out)] = v[Len(v)]
               /\ (pc = "done" /\ Len(ipa_words) = 1 /\ SingleToken(input)) =>
                     translated = translate_to_runic(r.out)

\* C13 witness: the transcription a-small_i-turned_r has been translated: a
\* and small_i fold into IOR, small_i is not used again with turned_r, and
\* turned_r is emitted on its own.
C13_Witness ==
    /\ pc = "done"
    /\ input = FoldWord
    /\ FoldInputs = {<<"a", "small_i", "turned_r">>}
    /\ FoldStarts(<<"a", "small_i", "turned_r">>) = {1}
    /\ Matches(<<"a", "small_i", "turned_r">>, 2)
    /\ translated = <<"IOR", "RAD">>

-----------------------------------------------------------------------------
(* Properties of mark_letter_x (SpecMark) *)

\* the positions of v where an adjacent k+s pair starts
PairStarts(v) == {n \in 1..(Len(v) - 1) : v[n] = "k" /\ v[n + 1] = "s"}

\* the number of x in the word
CountX(word) == Cardinality({n \in 1..Len(word) : word[n] \in {"x", "X"}})

\* the first m pairs of v, by position
FirstPairs(v, m) ==
    {n \in PairStarts(v) : Cardinality({q \in PairStarts(v) : q < n}) < m}

\* v with each of its first m pairs replaced by the marker
Collapsed(v, m) ==
    Concat([n \in 1..Len(v) |->
        IF n \in FirstPairs(v, m) THEN <<"mod_x">>
        ELSE IF (n - 1) \in FirstPairs(v, m) THEN <<>>
        ELSE <<v[n]>>])

\* the phonetic string handle_ipa_word passes to mark_letter_x
BeforeMark(word, ipa_word) ==
    SuffixEdit(word, FinalI(FinalSchwa(remove_stress_markers(ipa_word)))).val

\* C14: mark_letter_x collapses, for the occurrences of x in the word taken
\* left to right, the k+s pairs of the phonetic string taken left to right:
\* the result is the string with its first min(number of x, number of pairs)
\* pairs replaced by the marker, pairs never overlap, no marker or half pair
\* is matched again, and with no pair left the string is unchanged.
C14_MarkLetterX ==
    (pc = "done" /\ SingleToken(input)
        /\ StrippedWord(Lowered(input)) \in DOMAIN english_to_ipa) =>
        LET word == StrippedWord(Lowered(input))
            v == BeforeMark(word, english_to_ipa[word])
            m == Min({CountX(word), Cardinality(PairStarts(v))})
            r == mark_letter_x(word, v)
        IN /\ \A n \in PairStarts(v) : (n + 1) \notin PairStarts(v)
           /\ r = Collapsed(v, m)
           /\ Cardinality({n \in 1..Len(r) : r[n] = "mod_x"}) = m
           /\ Len(r) = Len(v) - m
           /\ (PairStarts(v) = {} \/ CountX(word) = 0) => r = v
           /\ ipa_words[1].word =
                 IF StrippedWord(Lowered(input)) = Lowered(input) THEN r
                 ELSE Append(r, StrippedMark(Lowered(input)))

\* C14 witness: the word xax with the transcription k-s-k-s was translated:
\* each x collapsed one pair and the unit is two markers.
C14_Witness ==
    /\ pc = "done"
    /\ input = <<"x", "a", "x">>
    /\ input \in DOMAIN english_to_ipa
    /\ english_to_ipa[input] = <<"k", "s", "k", "s">>
    /\ ipa_words = <<[word |-> <<"mod_x", "mod_x">>, translated_to_ipa |-> TRUE]>>

-----------------------------------------------------------------------------
(* Properties of the whitespace after a mark (Spec) *)

\* what a run is output as after a token: after a token that ends in a mark a
\* first literal space stays a plain space, everything else is mapped as usual
RunAfter(token, run) ==
    IF Last(token) \in Punctuation /\ run # <<>> /\ Head(run) = " "
    THEN <<" ">> \o Separated(Tail(run))
    ELSE Separated(run)

\* C15: in the output, the whitespace run after a token that ends in a mark
\* has a first literal space as a plain space and the rest of the run mapped
\* as usual; a run that starts with another whitespace character, and the run
\* after a token without a mark, are mapped as usual. This holds whether the
\* token is a dictionary word, untranslated or split at hyphens.
C15_SpaceAfterMark ==
    pc = "done" =>
        LET tokens == Runs(input, WhitespaceChars, FALSE)
            runs == {r \in Runs(input, WhitespaceChars, TRUE) : r[1] > 1}
            seps == {r \in Runs(translated, SeparatorChars, TRUE) : r[1] > 1}
        IN /\ Cardinality(seps) = Cardinality(runs)
           /\ \A n \in 1..Cardinality(runs) :
                 Slice(translated, NthRun(seps, n))
                    = RunAfter(Slice(input, NthRun(tokens, n)), Slice(input, NthRun(runs, n)))

\* C15 witness: "leaf-zed!  \nleaf" has been translated: after the split
\* token with its mark stand a plain space, the separator rune and the newline.
C15_Witness ==
    /\ pc = "done"
    /\ input = LEAF \o <<"-">> \o ZED \o <<"!", " ", " ", "\n">> \o LEAF
    /\ Len(ipa_words) = 3
    /\ whitespaces[3] = <<"X", " ", "\n">>
    /\ translated = <<"LAGU", "IS", "IS", "FEOH", "-", "z", "e", "d", "!",
                      " ", "RUNIC_PUNCT", "\n", "LAGU", "IS", "IS", "FEOH">>

-----------------------------------------------------------------------------
(* A mark after a word with an ambiguous sound (SpecAmb) *)

\* C16: for a dictionary word w and a mark p, translate(w followed by p) is
\* translate(w) followed by p: the mark pushed onto the phonetic string
\* before disambiguate does not change how any f or s of the word is rendered.
C16_AsStated ==
    (pc = "done" /\ input # <<>> /\ Last(input) \in Punctuation
        /\ Front(input) \in DOMAIN english_to_ipa) =>
        LET alone == translate(english_to_ipa, amb_map, Front(input))
        IN alone.ok /\ translated = Append(alone.out, Last(input))

\* C16 witness: leaf is f and leave is v, so position 0 of their shape is
\* flagged and "leaf" alone renders f unvoiced (FEOH FEOH); "leaf." has been
\* translated and its f is voiced (one FEOH).
C16_Witness ==
    /\ pc = "done"
    /\ input = <<"l", "e", "a", "f", ".">>
    /\ english_to_ipa[<<"l", "e", "a", "f">>] = <<"f">>
    /\ english_to_ipa[<<"l", "e", "a", "v", "e">>] = <<"v">>
    /\ translate(english_to_ipa, amb_map, <<"l", "e", "a", "f">>).out = <<"FEOH", "FEOH">>
    /\ ipa_words = <<[word |-> <<"f", ".">>, translated_to_ipa |-> TRUE]>>
    /\ disambiguate(<<"f", ".">>, amb_map) = <<"v", ".">>
    /\ translated = <<"FEOH", ".">>

-----------------------------------------------------------------------------
(* The unit list and the whitespace list in translate (Spec) *)

\* the number of units the token loop makes of a token: one, or one per
\* hyphen-separated piece when the word is not in the dictionary
PieceCount(token) ==
    LET word == StrippedWord(token) IN
    IF word \in DOMAIN english_to_ipa THEN 1
    ELSE Cardinality({n \in 1..Len(word) : word[n] = "-"}) + 1

\* the number of units made of the tokens before token t (one-based)
UnitsBefore(toks, t) ==
    Cardinality({p \in (1..(t - 1)) \X (1..(Len(words) + 1)) :
                    p[2] <= PieceCount(toks[p[1]])})

\* the run after a token as the token loop leaves it
RunLeft(token, run) == IF StrippedWord(token) # token THEN MarkRun(run) ELSE run

\* C17: with `i` tokens processed and j hyphens inserted (the loop's index
\* of the last processed token is i - 1), the unit list has i + j entries and
\* the whitespace list has the leading run, one entry after every unit and
\* one run per remaining token; the entry after a unit is "-" when the next
\* unit is a piece of the same token and the token's own run otherwise; the
\* index i + j + 1 of the loop and the index of the assembly are in range,
\* and after the loop the whitespace list is one longer than the unit list.
C17_ListLayout ==
    pc \in {"tokens", "assemble", "done"} =>
        LET toks == split_whitespace(words)
            runs == parse_whitespace(words)
            N == Len(toks)
        IN /\ i <= N
           /\ Len(runs) = N + 1
           /\ Len(ipa_words) = i + j
           /\ Len(ipa_words) = UnitsBefore(toks, i + 1)
           /\ Len(whitespaces) = 1 + Len(ipa_words) + (N - i)
           /\ whitespaces[1] = runs[1]
           /\ \A t \in 1..i : \A m \in 1..PieceCount(toks[t]) :
                 whitespaces[1 + UnitsBefore(toks, t) + m] =
                    IF m < PieceCount(toks[t]) THEN <<"-">>
                    ELSE RunLeft(toks[t], runs[t + 1])
           /\ \A t \in (i + 1)..N :
                 whitespaces[1 + Len(ipa_words) + (t - i)] = runs[t + 1]
           /\ j = Cardinality({n \in 1..Len(whitespaces) : whitespaces[n] = <<"-">>})
           /\ (pc = "tokens" /\ i < N) => i + j + 1 < Len(whitespaces)
           /\ pc \in {"assemble", "done"} =>
                 /\ i = N
                 /\ Len(whitespaces) = Len(ipa_words) + 1
                 /\ k < Len(ipa_words) => k + 1 < Len(whitespaces)

\* C17 witness: in "zed-leaf-zed, b" the first token has been processed:
\* three units, two hyphens, each "-" after the piece it follows, then the
\* token's marked run and the run of the token still to come.
C17_Witness ==
    /\ pc = "tokens"
    /\ input = ZED \o <<"-">> \o LEAF \o <<"-">> \o ZED \o <<",", " ", "b">>
    /\ i = 1
    /\ j = 2
    /\ Len(ipa_words) = 3
    /\ whitespaces = << <<>>, <<"-">>, <<"-">>, <<"X">>, <<>> >>

====
